---- MODULE Spec2Model ----
(***************************************************************************)
(* Needleman-Wunsch global alignment with a linear gap penalty            *)
(* (plugin/src: lib.rs, scoring.rs, matrices.rs, algorithm.rs).           *)
(*                                                                         *)
(* A char is a one-character string, a Rust String / Vec<char> a sequence  *)
(* of chars.  Scores are f32 in the source; the model draws integer-valued *)
(* scores and penalties, on which f32 arithmetic is exact.                 *)
(***************************************************************************)
EXTENDS Integers, Sequences, FiniteSets, TLC

VARIABLES pc, input, scorer, max_paths, matrix, directions,
          stack, current_path, results, output

vars == <<pc, input, scorer, max_paths, matrix, directions,
          stack, current_path, results, output>>

(***************************************************************************)
(* Bounds of the model                                                     *)
(***************************************************************************)
\* longest enumerated input sequence (the test sequences are added to these)
MaxLen == 2
\* largest explicit maxPaths of a request (None is drawn as well)
MaxPathsBound == 2

(***************************************************************************)
(* Generic helpers                                                         *)
(***************************************************************************)
Max2(a, b) == IF a >= b THEN a ELSE b

RECURSIVE SeqsUpTo(_, _)
SeqsUpTo(S, k) ==
    IF k = 0 THEN {<<>>}
    ELSE LET shorter == SeqsUpTo(S, k - 1)
         IN  shorter \cup {Append(s, c) : s \in shorter, c \in S}

Range(s) == {s[k] : k \in 1..Len(s)}

Reverse(s) == [k \in 1..Len(s) |-> s[Len(s) + 1 - k]]

Take(s, k) == SubSeq(s, 1, k)

\* f32::max folded over a non-empty sequence of numbers (Iterator::reduce)
RECURSIVE ReduceMax(_)
ReduceMax(s) ==
    IF Len(s) = 1 THEN s[1]
    ELSE Max2(ReduceMax(SubSeq(s, 1, Len(s) - 1)), s[Len(s)])

(***************************************************************************)
(* char::to_ascii_uppercase / to_ascii_lowercase, str::to_uppercase        *)
(***************************************************************************)
LowerLetters == <<"a", "b", "c", "d", "e", "f", "g", "h", "i", "j", "k", "l", "m",
                  "n", "o", "p", "q", "r", "s", "t", "u", "v", "w", "x", "y", "z">>
UpperLetters == <<"A", "B", "C", "D", "E", "F", "G", "H", "I", "J", "K", "L", "M",
                  "N", "O", "P", "Q", "R", "S", "T", "U", "V", "W", "X", "Y", "Z">>

IndexIn(s, c) == CHOOSE k \in 1..Len(s) : s[k] = c

to_ascii_uppercase(c) ==
    IF c \in Range(LowerLetters) THEN UpperLetters[IndexIn(LowerLetters, c)] ELSE c

to_ascii_lowercase(c) ==
    IF c \in Range(UpperLetters) THEN LowerLetters[IndexIn(UpperLetters, c)] ELSE c

\* str::to_uppercase on an ASCII name
to_uppercase(name) == [k \in 1..Len(name) |-> to_ascii_uppercase(name[k])]

(***************************************************************************)
(* matrices.rs: the EDNAFULL table and the registry                        *)
(***************************************************************************)
chars == <<"A", "T", "G", "C", "S", "W", "R", "Y", "K", "M", "B", "V", "H", "D", "N">>

values == <<
    << 5, -4, -4, -4, -4,  1,  1, -4, -4,  1, -4, -1, -1, -1, -2, -4>>,
    <<-4,  5, -4, -4, -4,  1, -4,  1,  1, -4, -1, -4, -1, -1, -2,  5>>,
    <<-4, -4,  5, -4,  1, -4,  1, -4,  1, -4, -1, -1, -4, -1, -2, -4>>,
    <<-4, -4, -4,  5,  1, -4, -4,  1, -4,  1, -1, -1, -1, -4, -2, -4>>,
    <<-4, -4,  1,  1, -1, -4, -2, -2, -2, -2, -1, -1, -3, -3, -1, -4>>,
    << 1,  1, -4, -4, -4, -1, -2, -2, -2, -2, -3, -3, -1, -1, -1,  1>>,
    << 1, -4,  1, -4, -2, -2, -1, -4, -2, -2, -3, -1, -3, -1, -1, -4>>,
    <<-4,  1, -4,  1, -2, -2, -4, -1, -2, -2, -1, -3, -1, -3, -1,  1>>,
    <<-4,  1,  1, -4, -2, -2, -2, -2, -1, -4, -1, -3, -3, -1, -1,  1>>,
    << 1, -4, -4,  1, -2, -2, -2, -2, -4, -1, -3, -1, -1, -3, -1, -4>>,
    <<-4, -1, -1, -1, -1, -3, -3, -1, -1, -3, -1, -2, -2, -2, -1, -1>>,
    <<-1, -4, -1, -1, -1, -3, -1, -3, -3, -1, -2, -1, -2, -2, -1, -4>>,
    <<-1, -1, -4, -1, -3, -1, -3, -1, -3, -1, -2, -2, -1, -2, -1, -1>>,
    <<-1, -1, -1, -4, -3, -1, -1, -3, -1, -3, -2, -2, -2, -1, -1, -1>>,
    <<-2, -2, -2, -2, -1, -1, -1, -1, -1, -1, -1, -1, -1, -1, -1, -2>> >>

\* EdnaInserts without the insert of the lower-case/lower-case key
EdnaInserts_NoLowerLower(i, j) ==
    LET c1 == chars[i]
        c2 == chars[j]
        v  == values[i][j]
    IN  { <<<<c1, c2>>, v>>,
          <<<<to_ascii_lowercase(c1), c2>>, v>>,
          <<<<c1, to_ascii_lowercase(c2)>>, v>> }

\* the four matrix.insert calls of one (i, j) iteration, as <<key, value>> entries
EdnaInserts(i, j) ==
    LET c1 == chars[i]
        c2 == chars[j]
        v  == values[i][j]
    IN  { <<<<c1, c2>>, v>>,
          <<<<to_ascii_lowercase(c1), c2>>, v>>,
          <<<<c1, to_ascii_lowercase(c2)>>, v>>,
          <<<<to_ascii_lowercase(c1), to_ascii_lowercase(c2)>>, v>> }

\* the HashMap<(char, char), f32> built by get_ednafull_matrix (no key is inserted
\* twice with different values: the 15 chars are distinct)
get_ednafull_matrix ==
    LET entries == UNION {EdnaInserts(i, j) : i \in 1..Len(chars), j \in 1..Len(chars)}
        keys    == {e[1] : e \in entries}
    IN  [k \in keys |-> (CHOOSE e \in entries : e[1] = k)[2]]

EDNAFULL == <<"E", "D", "N", "A", "F", "U", "L", "L">>

available_matrices == <<EDNAFULL>>

\* Option<HashMap>: Some(table) or None.  The tables are immutable, so Some carries
\* the matched name and Table gives the HashMap it stands for.
get_matrix_by_name(name) ==
    IF to_uppercase(name) = EDNAFULL
    THEN [is_some |-> TRUE, value |-> EDNAFULL]
    ELSE [is_some |-> FALSE]

Table(mat) == IF mat = EDNAFULL THEN get_ednafull_matrix ELSE <<>>

(***************************************************************************)
(* scoring.rs: the two Scorer implementations                              *)
(***************************************************************************)
\* SimpleScorer::score with the two branches swapped
SimpleScorer_score_Swapped(self, a, b) ==
    IF to_ascii_uppercase(a) = to_ascii_uppercase(b)
    THEN self.mismatch_penalty
    ELSE self.match_score

SimpleScorer_score(self, a, b) ==
    IF to_ascii_uppercase(a) = to_ascii_uppercase(b)
    THEN self.match_score
    ELSE self.mismatch_penalty

MatrixScorer_score(self, a, b) ==
    LET a_upper == to_ascii_uppercase(a)
        b_upper == to_ascii_uppercase(b)
        map     == Table(self.matrix)
    IN  IF <<a_upper, b_upper>> \in DOMAIN map
        THEN map[<<a_upper, b_upper>>]
        ELSE self.default_score

\* Scorer::score through the Box<dyn Scorer> built by run_alignment
Scorer_score(self, a, b) ==
    IF self.kind = "Simple"
    THEN SimpleScorer_score(self, a, b)
    ELSE MatrixScorer_score(self, a, b)

(***************************************************************************)
(* lib.rs: the requests the entry point is given                           *)
(***************************************************************************)
\* characters of the enumerated sequences
Alphabet == {"A", "C"}

\* the sequences of the unit tests (algorithm.rs 189, 198)
TestSeqs == { <<"A", "C", "G", "T">>, <<"A", "C", "T">> }

\* a lower-case sequence (the scorers compare upper-cased characters)
LowerSeqs == { <<"a", "c", "t">> }

\* sequences that contain the gap symbol themselves
GapSeqs == { <<"-">>, <<"A", "-">> }

InputSeqs == SeqsUpTo(Alphabet, MaxLen) \cup TestSeqs \cup LowerSeqs \cup GapSeqs

\* get_matrix_by_name's test names (matrices.rs 129-133)
MatrixNames ==
    { EDNAFULL,
      <<"e", "d", "n", "a", "f", "u", "l", "l">>,
      <<"N", "U", "C", "4", "4">>,
      <<"N", "U", "C", "4", ".", "4">>,
      <<"U", "N", "K", "N", "O", "W", "N">> }

ScoringConfigs ==
    { [kind |-> "Simple", match_score |-> 5, mismatch |-> -4],
      [kind |-> "Simple", match_score |-> 2, mismatch |-> -1] }
    \cup { [kind |-> "Matrix", matrix |-> nm] : nm \in MatrixNames }

GapPenalties == {-2, -1}

\* Option<usize>
MaxPathsOptions ==
    { [is_some |-> FALSE] } \cup { [is_some |-> TRUE, value |-> k] : k \in 0..MaxPathsBound }

AlignmentInputs ==
    [ seq1 : InputSeqs, seq2 : InputSeqs, scores : ScoringConfigs,
      gap_penalty : GapPenalties, max_paths : MaxPathsOptions ]

\* input_data: bytes that serde_json decodes into an AlignmentInput, or not
Payloads ==
    { [decodes |-> TRUE, value |-> r] : r \in AlignmentInputs } \cup { [decodes |-> FALSE] }

\* max_paths.unwrap_or(100)
DefaultMaxPaths == 100

unwrap_or(opt, default) == IF opt.is_some THEN opt.value ELSE default

seq1 == input.value.seq1
seq2 == input.value.seq2
gap_penalty == input.value.gap_penalty
n == Len(seq1)
m == Len(seq2)

\* 0-based indexing of a Vec<char>
At(s, k) == s[k + 1]

(***************************************************************************)
(* algorithm.rs: record_optimal_directions                                 *)
(***************************************************************************)
HasBit(dir, bit) == (dir \div bit) % 2 = 1

BitOr(acc, bit) == IF HasBit(acc, bit) THEN acc ELSE acc + bit

RECURSIVE FoldBits(_, _)
FoldBits(acc, cands) ==
    IF cands = <<>> THEN acc
    ELSE FoldBits(BitOr(acc, cands[1][1]), Tail(cands))

\* record_optimal_directions without the filter on the best transition value
record_optimal_directions_AnyTransition(candidates) ==
    IF candidates = <<>> THEN 0
    ELSE
    LET max_pred == ReduceMax([k \in 1..Len(candidates) |-> candidates[k][3]])
        HasMaxPred(c) == c[3] = max_pred
    IN  FoldBits(0, SelectSeq(candidates, HasMaxPred))

\* record_optimal_directions without the filter on the predecessor score
record_optimal_directions_NoPredFilter(candidates) ==
    IF candidates = <<>> THEN 0
    ELSE
    LET best_transition == ReduceMax([k \in 1..Len(candidates) |-> candidates[k][2]])
        IsBest(c) == c[2] = best_transition
    IN  FoldBits(0, SelectSeq(candidates, IsBest))

\* candidates: a sequence of <<bit, transition value, predecessor score>>
record_optimal_directions(candidates) ==
    IF candidates = <<>> THEN 0
    ELSE
    LET best_transition == ReduceMax([k \in 1..Len(candidates) |-> candidates[k][2]])
        IsBest(c) == c[2] = best_transition
        valid_candidates == SelectSeq(candidates, IsBest)
        max_pred == ReduceMax([k \in 1..Len(valid_candidates) |-> valid_candidates[k][3]])
        HasMaxPred(c) == c[3] = max_pred
    IN  FoldBits(0, SelectSeq(valid_candidates, HasMaxPred))

(***************************************************************************)
(* algorithm.rs: needleman_wunsch_linear, initialization and matrix fill   *)
(***************************************************************************)
\* vec![vec![0.0f32; m + 1]; n + 1] and vec![vec![0u8; m + 1]; n + 1]
ZeroGrid(rows, cols) == [i \in 0..rows |-> [j \in 0..cols |-> 0]]

RECURSIVE InitColumn(_, _, _, _)
InitColumn(g, i, rows, gap) ==
    IF i > rows THEN g
    ELSE InitColumn([ m |-> [g.m EXCEPT ![i][0] = i * gap],
                      d |-> [g.d EXCEPT ![i][0] = 2] ], i + 1, rows, gap)

RECURSIVE InitRow(_, _, _, _)
InitRow(g, j, cols, gap) ==
    IF j > cols THEN g
    ELSE InitRow([ m |-> [g.m EXCEPT ![0][j] = j * gap],
                   d |-> [g.d EXCEPT ![0][j] = 4] ], j + 1, cols, gap)

\* FillCell with the left transition left out of the maximum
FillCell_NoLeft(g, i, j, s1, s2, sc, gap) ==
    LET char_score == Scorer_score(sc, At(s1, i - 1), At(s2, j - 1))
        diag    == g.m[i - 1][j - 1] + char_score
        up      == g.m[i - 1][j] + gap
        left    == g.m[i][j - 1] + gap
        max_val == Max2(diag, up)
        candidates == << <<1, diag, g.m[i - 1][j - 1]>>,
                         <<2, up,   g.m[i - 1][j]>>,
                         <<4, left, g.m[i][j - 1]>> >>
    IN  [ m |-> [g.m EXCEPT ![i][j] = max_val],
          d |-> [g.d EXCEPT ![i][j] = record_optimal_directions(candidates)] ]

\* the body of the inner loop for one cell
FillCell(g, i, j, s1, s2, sc, gap) ==
    LET char_score == Scorer_score(sc, At(s1, i - 1), At(s2, j - 1))
        diag    == g.m[i - 1][j - 1] + char_score
        up      == g.m[i - 1][j] + gap
        left    == g.m[i][j - 1] + gap
        max_val == Max2(Max2(diag, up), left)
        candidates == << <<1, diag, g.m[i - 1][j - 1]>>,
                         <<2, up,   g.m[i - 1][j]>>,
                         <<4, left, g.m[i][j - 1]>> >>
    IN  [ m |-> [g.m EXCEPT ![i][j] = max_val],
          d |-> [g.d EXCEPT ![i][j] = record_optimal_directions(candidates)] ]

\* for i in 1..=n { for j in 1..=m { ... } }
RECURSIVE FillLoop(_, _, _, _, _, _, _)
FillLoop(g, i, j, s1, s2, sc, gap) ==
    IF i > Len(s1) THEN g
    ELSE IF j > Len(s2) THEN FillLoop(g, i + 1, 1, s1, s2, sc, gap)
    ELSE FillLoop(FillCell(g, i, j, s1, s2, sc, gap), i, j + 1, s1, s2, sc, gap)

\* the score matrix and the direction matrix after the fill
FillMatrices(s1, s2, sc, gap) ==
    LET g0 == [ m |-> ZeroGrid(Len(s1), Len(s2)), d |-> ZeroGrid(Len(s1), Len(s2)) ]
        g1 == InitColumn(g0, 1, Len(s1), gap)
        g2 == InitRow(g1, 1, Len(s2), gap)
    IN  FillLoop(g2, 1, 1, s1, s2, sc, gap)

(***************************************************************************)
(* algorithm.rs: find_all_paths_linear, one call frame at a time           *)
(*                                                                         *)
(* t = [stack, current_path, results]; a frame is [i, j, pc], pc the place *)
(* the call has reached: "enter", "diag", "up", "left".                    *)
(***************************************************************************)
Top(t) == t.stack[Len(t.stack)]

Pop(s) == SubSeq(s, 1, Len(s) - 1)

SetPc(t, next) == [t EXCEPT !.stack[Len(t.stack)].pc = next]

\* the limit check off by one
LimitReached_Strict(res, limit) == Len(res) > limit

\* results.len() >= max_paths
LimitReached(res, limit) == Len(res) >= limit

\* BuildAlignment reading current_path front to back
BuildAlignment_NoReverse(cp) ==
    [ aligned_seq1 |-> [k \in 1..Len(cp) |-> cp[k][3]],
      aligned_seq2 |-> [k \in 1..Len(cp) |-> cp[k][4]],
      path |-> <<[i |-> 0, j |-> 0]>>
               \o [k \in 1..Len(cp) |-> [i |-> cp[k][1], j |-> cp[k][2]]] ]

\* the alignment pushed at (0, 0): current_path read in reverse
BuildAlignment(cp) ==
    LET rev == Reverse(cp)
    IN  [ aligned_seq1 |-> [k \in 1..Len(rev) |-> rev[k][3]],
          aligned_seq2 |-> [k \in 1..Len(rev) |-> rev[k][4]],
          path |-> <<[i |-> 0, j |-> 0]>>
                   \o [k \in 1..Len(rev) |-> [i |-> rev[k][1], j |-> rev[k][2]]] ]

\* return to the caller, which pops current_path right after the call
Return(t) ==
    [ stack        |-> Pop(t.stack),
      current_path |-> IF Len(t.stack) > 1 THEN Pop(t.current_path) ELSE t.current_path,
      results      |-> t.results ]

\* current_path.push(step); find_all_paths_linear(i2, j2, ...), the caller resuming at next
Call(t, next, step, i2, j2) ==
    [ stack        |-> Append(SetPc(t, next).stack, [i |-> i2, j |-> j2, pc |-> "enter"]),
      current_path |-> Append(t.current_path, step),
      results      |-> t.results ]

\* the three branch conditions and the steps they push on current_path
TakeDiag(dir, i, j) == i > 0 /\ j > 0 /\ HasBit(dir, 1)
TakeUp(dir, i, res, limit) == i > 0 /\ HasBit(dir, 2) /\ Len(res) < limit
TakeLeft(dir, j, res, limit) == j > 0 /\ HasBit(dir, 4) /\ Len(res) < limit

DiagStep(i, j, s1, s2) == <<i, j, At(s1, i - 1), At(s2, j - 1)>>
UpStep(i, j, s1) == <<i, j, At(s1, i - 1), "-">>
LeftStep(i, j, s2) == <<i, j, "-", At(s2, j - 1)>>

\* StepEnter with the (0, 0) case tested before the limit
StepEnter_OriginFirst(t, limit) ==
    LET f == Top(t)
    IN  IF f.i = 0 /\ f.j = 0
        THEN Return([t EXCEPT !.results = Append(@, BuildAlignment(t.current_path))])
        ELSE IF LimitReached(t.results, limit) THEN Return(t)
             ELSE SetPc(t, "diag")

\* the limit check and the (0, 0) case
StepEnter(t, limit) ==
    LET f == Top(t)
    IN  IF LimitReached(t.results, limit) THEN Return(t)
        ELSE IF f.i = 0 /\ f.j = 0
             THEN Return([t EXCEPT !.results = Append(@, BuildAlignment(t.current_path))])
             ELSE SetPc(t, "diag")

\* Diagonal (match/mismatch)
StepDiag(t, dirs, s1, s2) ==
    LET f == Top(t)
    IN  IF TakeDiag(dirs[f.i][f.j], f.i, f.j)
        THEN Call(t, "up", DiagStep(f.i, f.j, s1, s2), f.i - 1, f.j - 1)
        ELSE SetPc(t, "up")

\* Up (gap in seq2)
StepUp(t, dirs, s1, limit) ==
    LET f == Top(t)
    IN  IF TakeUp(dirs[f.i][f.j], f.i, t.results, limit)
        THEN Call(t, "left", UpStep(f.i, f.j, s1), f.i - 1, f.j)
        ELSE SetPc(t, "left")

\* Left (gap in seq1), then the end of the function
StepLeft(t, dirs, s2, limit) ==
    LET f == Top(t)
    IN  IF TakeLeft(dirs[f.i][f.j], f.j, t.results, limit)
        THEN Call(t, "end", LeftStep(f.i, f.j, s2), f.i, f.j - 1)
        ELSE Return(t)

\* find_all_paths_linear(n, m, &directions, .., &mut Vec::new(), &mut alignments, max_paths)
StartTraceback(s1, s2) ==
    [ stack        |-> <<[i |-> Len(s1), j |-> Len(s2), pc |-> "enter"]>>,
      current_path |-> <<>>,
      results      |-> <<>> ]

\* The same function as one recursive definition: the results a call leaves behind,
\* given the results and current_path it is entered with.
RECURSIVE find_all_paths_linear(_, _, _, _, _, _, _, _)
find_all_paths_linear(i, j, dirs, s1, s2, cp, res, limit) ==
    IF LimitReached(res, limit) THEN res
    ELSE IF i = 0 /\ j = 0 THEN Append(res, BuildAlignment(cp))
    ELSE
    LET dir == dirs[i][j]
        after_diag ==
            IF TakeDiag(dir, i, j)
            THEN find_all_paths_linear(i - 1, j - 1, dirs, s1, s2,
                                       Append(cp, DiagStep(i, j, s1, s2)), res, limit)
            ELSE res
        after_up ==
            IF TakeUp(dir, i, after_diag, limit)
            THEN find_all_paths_linear(i - 1, j, dirs, s1, s2,
                                       Append(cp, UpStep(i, j, s1)), after_diag, limit)
            ELSE after_diag
    IN  IF TakeLeft(dir, j, after_up, limit)
        THEN find_all_paths_linear(i, j - 1, dirs, s1, s2,
                                   Append(cp, LeftStep(i, j, s2)), after_up, limit)
        ELSE after_up

\* the alignments needleman_wunsch_linear returns for these directions under a limit
Traceback(dirs, s1, s2, limit) ==
    find_all_paths_linear(Len(s1), Len(s2), dirs, s1, s2, <<>>, <<>>, limit)

(***************************************************************************)
(* The state machine: align -> run_alignment -> needleman_wunsch_linear    *)
(***************************************************************************)
Tb == [stack |-> stack, current_path |-> current_path, results |-> results]

Init ==
    /\ input \in Payloads
    /\ pc = "align"
    /\ scorer = [kind |-> "None"]
    /\ max_paths = 0
    /\ matrix = <<>>
    /\ directions = <<>>
    /\ stack = <<>>
    /\ current_path = <<>>
    /\ results = <<>>
    /\ output = [kind |-> "None"]

\* align: serde_json::from_slice(input_data), Err mapped to "Failed to parse input"
ParseInput ==
    /\ pc = "align"
    /\ IF input.decodes
       THEN pc' = "run_alignment" /\ output' = output
       ELSE pc' = "returned" /\ output' = [kind |-> "Err", msg |-> "Failed to parse input"]
    /\ UNCHANGED <<input, scorer, max_paths, matrix, directions,
                   stack, current_path, results>>

\* run_alignment: the scorer for the scoring configuration
MakeScorer(scores) ==
    IF scores.kind = "Simple"
    THEN [ok |-> TRUE,
          scorer |-> [kind |-> "Simple", match_score |-> scores.match_score,
                      mismatch_penalty |-> scores.mismatch]]
    ELSE LET mat == get_matrix_by_name(scores.matrix)
         IN  IF mat.is_some
             THEN [ok |-> TRUE,
                   scorer |-> [kind |-> "Matrix", matrix |-> mat.value, default_score |-> -4]]
             ELSE [ok |-> FALSE]

\* run_alignment up to the call of needleman_wunsch_linear; unwrap_or_else(|| panic!(..))
RunAlignment ==
    /\ pc = "run_alignment"
    /\ LET made == MakeScorer(input.value.scores)
       IN  IF made.ok
           THEN /\ scorer' = made.scorer
                /\ max_paths' = unwrap_or(input.value.max_paths, DefaultMaxPaths)
                /\ pc' = "fill"
                /\ output' = output
           ELSE /\ pc' = "panicked"
                /\ output' = [kind |-> "Panic", msg |-> "Unknown substitution matrix",
                              available |-> available_matrices]
                /\ UNCHANGED <<scorer, max_paths>>
    /\ UNCHANGED <<input, matrix, directions, stack, current_path, results>>

\* needleman_wunsch_linear: initialization, matrix fill, and the outermost traceback call
Fill ==
    /\ pc = "fill"
    /\ LET g == FillMatrices(seq1, seq2, scorer, gap_penalty)
           t == StartTraceback(seq1, seq2)
       IN  /\ matrix' = g.m
           /\ directions' = g.d
           /\ stack' = t.stack
           /\ current_path' = t.current_path
           /\ results' = t.results
    /\ pc' = "traceback"
    /\ UNCHANGED <<input, scorer, max_paths, output>>

TbAssign(t) ==
    /\ stack' = t.stack
    /\ current_path' = t.current_path
    /\ results' = t.results
    /\ UNCHANGED <<pc, input, scorer, max_paths, matrix, directions, output>>

TbEnter ==
    /\ pc = "traceback" /\ stack # <<>> /\ Top(Tb).pc = "enter"
    /\ TbAssign(StepEnter(Tb, max_paths))

TbDiag ==
    /\ pc = "traceback" /\ stack # <<>> /\ Top(Tb).pc = "diag"
    /\ TbAssign(StepDiag(Tb, directions, seq1, seq2))

TbUp ==
    /\ pc = "traceback" /\ stack # <<>> /\ Top(Tb).pc = "up"
    /\ TbAssign(StepUp(Tb, directions, seq1, max_paths))

TbLeft ==
    /\ pc = "traceback" /\ stack # <<>> /\ Top(Tb).pc = "left"
    /\ TbAssign(StepLeft(Tb, directions, seq2, max_paths))

TbEnd ==
    /\ pc = "traceback" /\ stack # <<>> /\ Top(Tb).pc = "end"
    /\ TbAssign(Return(Tb))

\* AlignmentOutput { score: matrix[n][m], alignments, matrices }, returned through align
Finish ==
    /\ pc = "traceback" /\ stack = <<>>
    /\ output' = [kind |-> "Ok", score |-> matrix[n][m], alignments |-> results,
                  matrices |-> [m |-> matrix]]
    /\ pc' = "returned"
    /\ UNCHANGED <<input, scorer, max_paths, matrix, directions,
                   stack, current_path, results>>

Next ==
    \/ ParseInput
    \/ RunAlignment
    \/ Fill
    \/ TbEnter
    \/ TbDiag
    \/ TbUp
    \/ TbLeft
    \/ TbEnd
    \/ Finish

Spec == Init /\ [][Next]_vars

(***************************************************************************)
(* Reference definitions for the properties: global alignments by brute    *)
(* force.  A global alignment of s1[0..i] with s2[0..j] is a sequence of   *)
(* moves "D" (one char of each), "U" (a char of s1 over a gap), "L" (a gap *)
(* over a char of s2) from (0, 0) to (i, j).                               *)
(***************************************************************************)
RECURSIVE SumSeq(_)
SumSeq(s) == IF s = <<>> THEN 0 ELSE s[1] + SumSeq(Tail(s))

SetMax(S) == CHOOSE x \in S : \A y \in S : y <= x

RECURSIVE AllMoveSeqs(_, _)
AllMoveSeqs(i, j) ==
    IF i = 0 /\ j = 0 THEN {<<>>}
    ELSE (IF i > 0 /\ j > 0 THEN {Append(p, "D") : p \in AllMoveSeqs(i - 1, j - 1)} ELSE {})
         \cup (IF i > 0 THEN {Append(p, "U") : p \in AllMoveSeqs(i - 1, j)} ELSE {})
         \cup (IF j > 0 THEN {Append(p, "L") : p \in AllMoveSeqs(i, j - 1)} ELSE {})

\* row and column reached after the first k moves
RowAfter(mv, k) == Cardinality({q \in 1..k : mv[q] \in {"D", "U"}})
ColAfter(mv, k) == Cardinality({q \in 1..k : mv[q] \in {"D", "L"}})

\* the alignment a move sequence spells
AlignmentOf(mv, s1, s2) ==
    [ aligned_seq1 |-> [k \in 1..Len(mv) |->
                          IF mv[k] = "L" THEN "-" ELSE s1[RowAfter(mv, k)]],
      aligned_seq2 |-> [k \in 1..Len(mv) |->
                          IF mv[k] = "U" THEN "-" ELSE s2[ColAfter(mv, k)]],
      path |-> <<[i |-> 0, j |-> 0]>>
               \o [k \in 1..Len(mv) |-> [i |-> RowAfter(mv, k), j |-> ColAfter(mv, k)]] ]

\* the score of a move sequence: the scorer on a "D" column, the gap penalty otherwise
MoveScore(mv, s1, s2, sc, gap) ==
    SumSeq([k \in 1..Len(mv) |->
              IF mv[k] = "D"
              THEN Scorer_score(sc, s1[RowAfter(mv, k)], s2[ColAfter(mv, k)])
              ELSE gap])

\* the scores of all global alignments of the first i chars of s1 with the first j of
\* s2, by their last column (the set MoveScore takes over AllMoveSeqs(i, j))
RECURSIVE AlignmentScores(_, _, _, _, _, _)
AlignmentScores(i, j, s1, s2, sc, gap) ==
    IF i = 0 /\ j = 0 THEN {0}
    ELSE (IF i > 0 /\ j > 0
          THEN {x + Scorer_score(sc, s1[i], s2[j]) :
                   x \in AlignmentScores(i - 1, j - 1, s1, s2, sc, gap)}
          ELSE {})
         \cup (IF i > 0 THEN {x + gap : x \in AlignmentScores(i - 1, j, s1, s2, sc, gap)} ELSE {})
         \cup (IF j > 0 THEN {x + gap : x \in AlignmentScores(i, j - 1, s1, s2, sc, gap)} ELSE {})

\* the best score of a global alignment of the first i chars of s1 with the first j of s2
OptScore(i, j, s1, s2, sc, gap) == SetMax(AlignmentScores(i, j, s1, s2, sc, gap))

\* the alignments of all of s1 with all of s2 that reach the best score
OptimalAlignments(s1, s2, sc, gap) ==
    LET all  == AllMoveSeqs(Len(s1), Len(s2))
        best == SetMax({MoveScore(mv, s1, s2, sc, gap) : mv \in all})
    IN  {AlignmentOf(mv, s1, s2) : mv \in {q \in all : MoveScore(q, s1, s2, sc, gap) = best}}

\* re-scoring an alignment column by column, a column with "-" counting as a gap
RescoreBySymbol(al, sc, gap) ==
    SumSeq([k \in 1..Len(al.aligned_seq1) |->
              IF al.aligned_seq1[k] = "-" \/ al.aligned_seq2[k] = "-"
              THEN gap
              ELSE Scorer_score(sc, al.aligned_seq1[k], al.aligned_seq2[k])])

NotGap(c) == c # "-"
Strip(s) == SelectSeq(s, NotGap)

Done == pc = "returned" /\ output.kind = "Ok"

NoGapInInputs == input.decodes /\ "-" \notin Range(seq1) \cup Range(seq2)

Simple54 == [kind |-> "Simple", match_score |-> 5, mismatch_penalty |-> -4]

ACGT == <<"A", "C", "G", "T">>
ACT == <<"A", "C", "T">>

Min2(a, b) == IF a <= b THEN a ELSE b

\* a limit no traceback reaches: there are fewer than 3^(n+m) move sequences
Unlimited == 3 ^ (n + m)

\* the stepwise traceback and the recursive definition return the same alignments
StepwiseAgreesWithRecursion ==
    Done => output.alignments = Traceback(directions, seq1, seq2, max_paths)

(***************************************************************************)
(* C1. Every returned alignment re-scores to the returned score: the sum,  *)
(* column by column, of scorer.score(c1, c2) for a column of two           *)
(* characters and of gapPenalty for a column containing '-', is            *)
(* output.score.                                                           *)
(***************************************************************************)
\* C1 as stated, for every seq1 and seq2
C1_RescoreEveryInput ==
    Done => \A k \in 1..Len(output.alignments) :
               RescoreBySymbol(output.alignments[k], scorer, gap_penalty) = output.score

\* C1 amended: for seq1 and seq2 that do not contain the gap symbol '-', every
\* returned alignment re-scores, column by column, to output.score
C1_RescoreGapFreeInputs ==
    (Done /\ NoGapInInputs) =>
        \A k \in 1..Len(output.alignments) :
            RescoreBySymbol(output.alignments[k], scorer, gap_penalty) = output.score

\* an alignment with a gap column and a two-character column was returned and re-scored
C1_Witness ==
    /\ Done /\ NoGapInInputs
    /\ Len(output.alignments) >= 2
    /\ \E c \in 1..Len(output.alignments[2].aligned_seq1) :
          output.alignments[2].aligned_seq1[c] = "-"
    /\ \E c \in 1..Len(output.alignments[2].aligned_seq1) :
          /\ output.alignments[2].aligned_seq1[c] # "-"
          /\ output.alignments[2].aligned_seq2[c] # "-"
    /\ RescoreBySymbol(output.alignments[2], scorer, gap_penalty) = output.score

(***************************************************************************)
(* C2. Whenever maxPaths is at least the number of global alignments of    *)
(* seq1 and seq2 whose score is the optimal score, every such alignment    *)
(* appears in output.alignments.  Stated on inputs without '-', where an   *)
(* alignment's strings determine its path.                                 *)
(***************************************************************************)
C2_AllOptimalEnumerated ==
    (Done /\ NoGapInInputs) =>
        LET opt == OptimalAlignments(seq1, seq2, scorer, gap_penalty)
        IN  max_paths >= Cardinality(opt) =>
               \A a \in opt : a \in Range(output.alignments)

(***************************************************************************)
(* C3. The score matrix is (n+1) x (m+1), each cell matrix[i][j] is the    *)
(* best score of a global alignment of the first i characters of seq1 with *)
(* the first j of seq2 (by brute force), output.score = matrix[n][m], and  *)
(* "ACGT" vs "ACT" with match 5, mismatch -4, gap -2 scores 13.            *)
(***************************************************************************)
C3_MatrixIsOptimal ==
    Done =>
        /\ DOMAIN output.matrices.m = 0..n
        /\ \A i \in 0..n : DOMAIN output.matrices.m[i] = 0..m
        /\ \A i \in 0..n, j \in 0..m :
              output.matrices.m[i][j] = OptScore(i, j, seq1, seq2, scorer, gap_penalty)
        /\ output.score = output.matrices.m[n][m]
        /\ (seq1 = ACGT /\ seq2 = ACT /\ scorer = Simple54 /\ gap_penalty = -2)
              => output.score = 13

\* the test's example was computed
C3_Witness ==
    /\ Done
    /\ seq1 = ACGT /\ seq2 = ACT /\ scorer = Simple54 /\ gap_penalty = -2
    /\ output.score = 13
    /\ output.matrices.m[4][3] = 13

(***************************************************************************)
(* C4. A request naming a substitution matrix the registry does not        *)
(* resolve ends in a recoverable error value listing the available names;  *)
(* run_alignment / align never panics on it.                               *)
(***************************************************************************)
UnknownMatrixRequested ==
    /\ input.decodes
    /\ input.value.scores.kind = "Matrix"
    /\ ~get_matrix_by_name(input.value.scores.matrix).is_some

\* C4: a request for an unknown matrix never reaches the panic, and returns an
\* error value that lists the available matrix names
C4_UnknownMatrixIsRecoverable ==
    UnknownMatrixRequested =>
        /\ pc # "panicked"
        /\ pc = "returned" =>
              /\ output.kind = "Err"
              /\ output.available = available_matrices

(***************************************************************************)
(* C5. The number of returned alignments never exceeds maxPaths, at every  *)
(* point of the traceback; and the list returned with maxPaths = k is the  *)
(* first min(k, total) elements, in order, of the list returned with any   *)
(* maxPaths = k' >= k.                                                     *)
(***************************************************************************)
\* limits k' >= k: the next ones, the default and one no traceback reaches
LargerLimits ==
    {k \in (max_paths..(max_paths + 2)) \cup {DefaultMaxPaths, Unlimited} : k >= max_paths}

\* C5: results never holds more than max_paths alignments, and the list returned
\* is the first min(k, total) alignments of the traceback under every larger limit
C5_BoundedPrefix ==
    /\ pc \in {"traceback", "returned"} => Len(results) <= max_paths
    /\ Done =>
         LET total == Len(Traceback(directions, seq1, seq2, Unlimited))
         IN  /\ Len(output.alignments) <= max_paths
             /\ \A k \in LargerLimits :
                   output.alignments =
                      Take(Traceback(directions, seq1, seq2, k), Min2(max_paths, total))

\* the limit cut the traceback short: 2 of at least 4 alignments were returned
C5_Witness ==
    /\ Done
    /\ max_paths = 2
    /\ Len(output.alignments) = 2
    /\ Len(Traceback(directions, seq1, seq2, Unlimited)) >= 4
    /\ output.alignments = Take(Traceback(directions, seq1, seq2, 3), 2)

(***************************************************************************)
(* C6. With maxPaths = 0 the alignments list is empty, while the score and *)
(* the score matrix are fully populated; and under every maxPaths the      *)
(* score and the matrix returned are those the fill computes from seq1,    *)
(* seq2, the scorer and gapPenalty alone.                                  *)
(***************************************************************************)
C6_ZeroMaxPaths ==
    /\ Done =>
          /\ output.matrices.m = FillMatrices(seq1, seq2, scorer, gap_penalty).m
          /\ output.score = FillMatrices(seq1, seq2, scorer, gap_penalty).m[n][m]
    /\ (Done /\ input.value.max_paths = [is_some |-> TRUE, value |-> 0]) =>
          /\ output.alignments = <<>>
          /\ output.score = OptScore(n, m, seq1, seq2, scorer, gap_penalty)
          /\ DOMAIN output.matrices.m = 0..n
          /\ \A i \in 0..n : DOMAIN output.matrices.m[i] = 0..m

\* a request with maxPaths = 0 on two non-empty sequences returned
C6_Witness ==
    /\ Done
    /\ input.value.max_paths = [is_some |-> TRUE, value |-> 0]
    /\ n >= 2 /\ m >= 2
    /\ output.alignments = <<>>
    /\ output.score = output.matrices.m[n][m]

(***************************************************************************)
(* C7. A sequence s of length k aligned with itself under match 5,         *)
(* mismatch -4, gap -2 scores 5*k, and for maxPaths >= 1 the first         *)
(* returned alignment is the ungapped one, aligned_seq1 = aligned_seq2 = s.*)
(***************************************************************************)
C7_IdenticalSequences ==
    (Done /\ seq1 = seq2 /\ scorer = Simple54 /\ gap_penalty = -2) =>
        /\ output.score = 5 * n
        /\ max_paths >= 1 =>
              /\ Len(output.alignments) >= 1
              /\ output.alignments[1].aligned_seq1 = seq1
              /\ output.alignments[1].aligned_seq2 = seq1

\* the test's "ACGT" against itself
C7_Witness ==
    /\ Done
    /\ seq1 = ACGT /\ seq2 = ACGT /\ scorer = Simple54 /\ gap_penalty = -2
    /\ max_paths >= 1
    /\ output.score = 20
    /\ output.alignments[1].aligned_seq1 = ACGT

(***************************************************************************)
(* C8. Over the 15 characters of EDNAFULL, MatrixScorer.score is symmetric *)
(* and the same for every upper/lower-case combination of its arguments,   *)
(* and the table built by get_ednafull_matrix holds one value under all    *)
(* four case combinations of each pair.                                    *)
(***************************************************************************)
EdnaChars == Range(chars)

BothCases(c) == {c, to_ascii_lowercase(c)}

EdnaScorer == [kind |-> "Matrix", matrix |-> EDNAFULL, default_score |-> -4]

\* the table: every case combination of every pair is a key, with one value per pair
EdnaTableCaseComplete ==
    \A a \in EdnaChars, b \in EdnaChars :
        \A x \in BothCases(a), y \in BothCases(b) :
            /\ <<x, y>> \in DOMAIN get_ednafull_matrix
            /\ get_ednafull_matrix[<<x, y>>] = get_ednafull_matrix[<<a, b>>]

\* the table read directly (no upper-casing) is symmetric
EdnaTableSymmetric ==
    \A a \in EdnaChars, b \in EdnaChars :
        \A x \in BothCases(a), y \in BothCases(b) :
            /\ <<x, y>> \in DOMAIN get_ednafull_matrix
            /\ <<y, x>> \in DOMAIN get_ednafull_matrix
            /\ get_ednafull_matrix[<<x, y>>] = get_ednafull_matrix[<<y, x>>]

\* the scorer: symmetric, and the same under every case combination
EdnaScoreSymmetricCaseInsensitive ==
    \A a \in EdnaChars, b \in EdnaChars :
        \A x \in BothCases(a), y \in BothCases(b) :
            /\ MatrixScorer_score(EdnaScorer, x, y) = MatrixScorer_score(EdnaScorer, y, x)
            /\ MatrixScorer_score(EdnaScorer, x, y) = MatrixScorer_score(EdnaScorer, a, b)

\* C8: whenever a request runs with the matrix scorer, that scorer is the EDNAFULL
\* one, its table is case-complete and symmetric, and its score is symmetric and
\* case-insensitive over the 15 characters
C8_EdnaSymmetricCaseInsensitive ==
    (pc \in {"fill", "traceback", "returned"} /\ scorer.kind = "Matrix") =>
        /\ scorer = EdnaScorer
        /\ EdnaTableCaseComplete
        /\ EdnaTableSymmetric
        /\ EdnaScoreSymmetricCaseInsensitive

\* a request resolved the EDNAFULL scorer and aligned a lower-case sequence with it
C8_Witness ==
    /\ Done
    /\ scorer = EdnaScorer
    /\ seq1 = <<"a", "c", "t">> /\ seq2 = ACT
    /\ output.score = 15
    /\ MatrixScorer_score(scorer, "a", "T") = -4
    /\ MatrixScorer_score(scorer, "t", "A") = -4

(***************************************************************************)
(* C9. For inputs without '-', every returned alignment is a well-formed   *)
(* global alignment: its path starts at (0,0), ends at (n,m) and moves by  *)
(* (+1,+1), (+1,0) or (0,+1); the aligned strings have equal length, the   *)
(* path length minus 1; removing '-' from them gives seq1 and seq2.  With  *)
(* an empty sequence the alignment is the all-gap (or empty) one.          *)
(***************************************************************************)
WellFormed(al) ==
    LET p  == al.path
        ln == Len(al.aligned_seq1)
    IN  /\ Len(al.aligned_seq2) = ln
        /\ Len(p) = ln + 1
        /\ p[1] = [i |-> 0, j |-> 0]
        /\ p[Len(p)] = [i |-> n, j |-> m]
        /\ \A k \in 1..ln :
              \/ /\ p[k + 1] = [i |-> p[k].i + 1, j |-> p[k].j + 1]
                 /\ al.aligned_seq1[k] = seq1[p[k + 1].i]
                 /\ al.aligned_seq2[k] = seq2[p[k + 1].j]
              \/ /\ p[k + 1] = [i |-> p[k].i + 1, j |-> p[k].j]
                 /\ al.aligned_seq1[k] = seq1[p[k + 1].i]
                 /\ al.aligned_seq2[k] = "-"
              \/ /\ p[k + 1] = [i |-> p[k].i, j |-> p[k].j + 1]
                 /\ al.aligned_seq1[k] = "-"
                 /\ al.aligned_seq2[k] = seq2[p[k + 1].j]
        /\ Strip(al.aligned_seq1) = seq1
        /\ Strip(al.aligned_seq2) = seq2

\* C9: every alignment returned for '-'-free inputs is well formed, and with an
\* empty sequence the one alignment is the all-gap (or empty) one
C9_WellFormedAlignments ==
    /\ (Done /\ NoGapInInputs) =>
          \A k \in 1..Len(output.alignments) : WellFormed(output.alignments[k])
    /\ (Done /\ max_paths >= 1 /\ n = 0) =>
          output.alignments =
             << [ aligned_seq1 |-> [k \in 1..m |-> "-"],
                  aligned_seq2 |-> seq2,
                  path |-> [k \in 1..(m + 1) |-> [i |-> 0, j |-> k - 1]] ] >>
    /\ (Done /\ max_paths >= 1 /\ m = 0) =>
          output.alignments =
             << [ aligned_seq1 |-> seq1,
                  aligned_seq2 |-> [k \in 1..n |-> "-"],
                  path |-> [k \in 1..(n + 1) |-> [i |-> k - 1, j |-> 0]] ] >>

\* two alignments with gaps of two sequences of length 2 or more were returned
C9_Witness ==
    /\ Done /\ NoGapInInputs
    /\ n >= 2 /\ m >= 2
    /\ Len(output.alignments) >= 2
    /\ "-" \in Range(output.alignments[2].aligned_seq1)
    /\ "-" \in Range(output.alignments[2].aligned_seq2)
    /\ WellFormed(output.alignments[2])

(***************************************************************************)
(* C10. After the fill: (0,0) has mask 0; (i,0), i > 0, exactly UP; (0,j), *)
(* j > 0, exactly LEFT; for i, j > 0 a bit is set iff its transition value *)
(* equals matrix[i][j] and its predecessor's score is the maximum          *)
(* predecessor score among the moves whose transition value equals         *)
(* matrix[i][j].  So every cell but the origin has a non-zero mask.        *)
(***************************************************************************)
\* the three moves into (i, j): <<bit, transition value, predecessor score>>
MovesInto(i, j) ==
    { <<1, matrix[i - 1][j - 1] + Scorer_score(scorer, seq1[i], seq2[j]), matrix[i - 1][j - 1]>>,
      <<2, matrix[i - 1][j] + gap_penalty, matrix[i - 1][j]>>,
      <<4, matrix[i][j - 1] + gap_penalty, matrix[i][j - 1]>> }

Tied(i, j) == {c \in MovesInto(i, j) : c[2] = matrix[i][j]}

Recorded(i, j) ==
    {c \in Tied(i, j) : \A o \in Tied(i, j) : o[3] <= c[3]}

\* the state the fill leaves, before the traceback takes a step
AfterFill ==
    /\ pc = "traceback"
    /\ stack = StartTraceback(seq1, seq2).stack
    /\ results = <<>>

\* C10: the masks the fill leaves are 0 at the origin, UP and LEFT on the borders,
\* and inside exactly the tied moves with the highest predecessor score
C10_DirectionMask ==
    (AfterFill \/ Done) =>
        /\ directions[0][0] = 0
        /\ \A i \in 1..n : directions[i][0] = 2
        /\ \A j \in 1..m : directions[0][j] = 4
        /\ \A i \in 1..n, j \in 1..m :
              /\ directions[i][j] \in 1..7
              /\ \A c \in MovesInto(i, j) :
                    HasBit(directions[i][j], c[1]) <=> c \in Recorded(i, j)
        /\ \A i \in 0..n, j \in 0..m : (i > 0 \/ j > 0) => directions[i][j] # 0

\* the filter on the predecessor dropped a tied move in one cell, and another cell
\* kept two moves
C10_Witness ==
    /\ AfterFill
    /\ \E i \in 1..n, j \in 1..m :
          \E c \in Tied(i, j) : ~HasBit(directions[i][j], c[1])
    /\ \E i \in 1..n, j \in 1..m : directions[i][j] \in {3, 5, 6}
    /\ \E i \in 1..n, j \in 1..m : directions[i][j] = 1
====
